---- MODULE Spec2Model ----
(***************************************************************************)
(* A model of the HTTP relay of influxdb-relay (src/relay/points.go):      *)
(*   - parseRequest, the batching/splitting algorithm (SpecBatch);         *)
(*   - HTTP.ServeHTTP, the write handler, from the arrival of a request    *)
(*     to its reply, with the delivery goroutines it starts (Spec).        *)
(***************************************************************************)
EXTENDS Integers, Sequences, FiniteSets, Bags, TLC

VARIABLES
    pr,         \* the frame of one parseRequest call (SpecBatch)
    h,          \* the relay's configuration (the fields of HTTP set by NewHTTP)
    rq,         \* the request, as far as the handler has read it
    hs,         \* the locals of the ServeHTTP call and its position
    w,          \* the status codes handed to the ResponseWriter, in order
    wg,         \* the WaitGroup counter
    once,       \* whether the sync.Once has fired
    responses,  \* the responses channel: its buffer, its capacity, whether it is closed
    tasks,      \* the delivery goroutines started, as a bag of their states
    closer,     \* the goroutine that waits for wg and closes the channel
    metering,   \* the metering counters, by <<org id, machine id>>
    proc,       \* the relay process: "up", "crashed" or "exited"
    rb,         \* one influxdb backend, its retry buffer and a pushToInfluxdb call
    svc,        \* the service: its configuration, its relays and their goroutines
    gm,         \* one GraphiteMetric call: its arguments and its result
    mr          \* the mutex mu, the entries of the metering map and the requests at it

(***************************************************************************)
(* Bounds of the model.                                                    *)
(***************************************************************************)
MaxPoints == 3      \* points in one parsed request body
MaxBodyPoints == 2  \* points in the body of a request to the handler
MaxSplit == 2       \* largest configured split threshold besides "no split"
MaxBackends == 2    \* backends of the relay
MaxCap == 1         \* largest configured absolute cap (0: no cap)
MaxAttempts == 3    \* delivery goroutines of one request

\* int(^uint(0) >> 1): the threshold NewHTTP stores when no split is
\* configured (the largest value of TLC's integers stands for it).
MaxInt == 2147483647

(***************************************************************************)
(* Points.  A parsed point is its timestamp (its position in the body:     *)
(* the key and timestamp identify the point) and its fields in order.  A   *)
(* field is "Float", "Integer" or "Other": a field the field loop of       *)
(* parseRequest skips (any other type, or a key that is not valid UTF-8).  *)
(***************************************************************************)
FieldKinds == {"Float", "Integer", "Other"}

\* A point of the line protocol has at least one field.
FieldLists ==
    {<<a>> : a \in FieldKinds}
        \cup {<<ab[1], ab[2]>> : ab \in FieldKinds \X FieldKinds}
        \cup {<<"Float", "Integer", "Float">>}

\* The bodies of at most n points: the point at position i has timestamp i.
Bodies(n) == UNION {[1..m -> FieldLists] : m \in 0..n}

PointAt(body, i) == [ts |-> i, fields |-> body[i]]

SplitThresholds == (1..MaxSplit) \cup {MaxInt}

(***************************************************************************)
(* parseRequest (points.go 990-1054).                                      *)
(***************************************************************************)
\* The field loop (999-1029): the fields that are written to the new line,
\* in order; numOfFields is their number.
keptFields(p) == SelectSeq(p.fields, LAMBDA f : f \in {"Float", "Integer"})

\* The line built for a point (1001, 1028, 1035): key, kept fields, timestamp.
newLine(p) == [ts |-> p.ts, fields |-> keptFields(p)]

\* The locals of parseRequest before the loop (991-995).
parseStart(k, body) ==
    [k |-> k, points |-> body, i |-> 1, linesToSend |-> <<>>,
     datapointsLeft |-> k, outBytes |-> <<>>, totalDatapoints |-> 0, pc |-> "loop"]

\* A variant of fits that lets one datapoint too many into the batch.
fitsOffByOne(datapointsLeft, numOfFields) == datapointsLeft - numOfFields >= -1

\* Whether the line fits the current batch (1037).
fits(datapointsLeft, numOfFields) == datapointsLeft - numOfFields >= 0

\* A variant of parsePoint that loses the line that opens a new batch.
parsePointDropsOnSplit(st) ==
    LET p == PointAt(st.points, st.i)
        numOfFields == Len(newLine(p).fields)
    IN  IF numOfFields = 0
        THEN [st EXCEPT !.i = @ + 1]
        ELSE IF st.datapointsLeft - numOfFields >= 0
        THEN [st EXCEPT !.i = @ + 1,
                        !.linesToSend = Append(@, newLine(p)),
                        !.datapointsLeft = @ - numOfFields,
                        !.totalDatapoints = @ + numOfFields]
        ELSE [st EXCEPT !.i = @ + 1,
                        !.outBytes = Append(@, st.linesToSend),
                        !.linesToSend = <<>>,
                        !.datapointsLeft = st.k,
                        !.totalDatapoints = @ + numOfFields]

\* One iteration of the loop over the points (997-1047).
parsePoint(st) ==
    LET p == PointAt(st.points, st.i)
        numOfFields == Len(keptFields(p))
    IN  IF numOfFields = 0
        THEN [st EXCEPT !.i = @ + 1]
        ELSE IF fits(st.datapointsLeft, numOfFields)
        THEN [st EXCEPT !.i = @ + 1,
                        !.linesToSend = Append(@, newLine(p)),
                        !.datapointsLeft = @ - numOfFields,
                        !.totalDatapoints = @ + numOfFields]
        ELSE [st EXCEPT !.i = @ + 1,
                        !.outBytes = Append(@, st.linesToSend),
                        !.linesToSend = <<newLine(p)>>,
                        !.datapointsLeft = st.k - numOfFields,
                        !.totalDatapoints = @ + numOfFields]

\* A variant of parseReturn that forgets the batch still being filled.
parseReturnNoFlush(st) == [st EXCEPT !.pc = "done"]

\* After the loop (1049-1053): the last batch, when it holds a line.
parseReturn(st) ==
    [st EXCEPT !.outBytes = IF Len(st.linesToSend) > 0 THEN Append(@, st.linesToSend) ELSE @,
               !.pc = "done"]

RECURSIVE parseLoop(_)
parseLoop(st) == IF st.i > Len(st.points) THEN parseReturn(st) ELSE parseLoop(parsePoint(st))

\* The whole call: its final frame (outBytes and the returned totalDatapoints).
parseRequest(k, body) == parseLoop(parseStart(k, body))

\* A frame that is not in use.
NoFrame == [pc |-> "idle"]

(***************************************************************************)
(* The relay and a request.                                                *)
(***************************************************************************)
BackendTypes == {"influxdb", "graphite", "kafka"}

BackendLists == UNION {[1..n -> BackendTypes] : n \in 1..MaxBackends}

\* The configurations NewHTTP can build (413-465).
Configs ==
    [itsAllGoodMan : BOOLEAN, dropUnauthorized : BOOLEAN, enableMetering : BOOLEAN,
     maxDatapointsPerRequest : 0..MaxCap,
     splitRequestPerDatapoints : {1, MaxSplit, MaxInt},
     backends : BackendLists]

\* The bodies the handler is given: points of one float field and points
\* without a numeric field, and the body of one point of two numeric fields.
RequestBodies ==
    {b \in Bodies(MaxBodyPoints) : \A i \in 1..Len(b) : b[i] \in {<<"Float">>, <<"Other">>}}
        \cup {<< <<"Float", "Integer">> >>}

OrgIDs == {"Unauthorized", "org1"}
MachineIDs == {"", "m1"}

\* What a backend answers: a transport failure (no response), or a status.
Statuses == {200, 400, 502, 503, 504}
NoResponse == [err |-> TRUE, StatusCode |-> 0]
Response(code) == [err |-> FALSE, StatusCode |-> code]
Outcomes == {NoResponse} \cup {Response(c) : c \in Statuses}

\* resp.StatusCode / 100
Class(code) == code \div 100

\* The request before any of it is read.
NewRequest ==
    [path |-> "unread", method |-> "unread", encoding |-> "unread", body |-> "unread",
     machineID |-> "unread", orgID |-> "unread", sourceType |-> "unread", db |-> "unread"]

\* The handler's locals on entry.
NewHandler ==
    [pc |-> "route", machineID |-> "", orgID |-> "", sourceType |-> "",
     points |-> <<>>, outBytes |-> <<>>, totalDatapoints |-> 0,
     influxdbBackends |-> 0, ignoreResponses |-> FALSE, bi |-> 1,
     errResponse |-> NoResponse,
     seen |-> <<>>]      \* history: the status codes taken from the channel

NoMetering == [k \in OrgIDs \X MachineIDs |-> 0]

RelayIdle ==
    /\ rq = NewRequest
    /\ hs = NewHandler
    /\ w = <<>>
    /\ wg = 0
    /\ once = FALSE
    /\ responses = [buf |-> <<>>, closed |-> FALSE, cap |-> 0]
    /\ tasks = EmptyBag
    /\ closer = "none"
    /\ metering = NoMetering
    /\ proc = "up"

\* The parts of the model that a specification does not exercise.
NoBackend == [pc |-> "none"]
NoService == [pc |-> "none"]
NoCall == [pc |-> "none"]
NoRequests == [pc |-> "none"]

OthersIdle ==
    /\ rb = NoBackend
    /\ svc = NoService
    /\ gm = NoCall
    /\ mr = NoRequests

batchVars == <<pr>>
relayVars == <<h, rq, hs, w, wg, once, responses, tasks, closer, metering, proc>>
others == <<rb, svc, gm, mr>>
vars == <<batchVars, relayVars, others>>

(***************************************************************************)
(* SpecBatch: parseRequest applied to every body and threshold of the      *)
(* bounds, one loop iteration at a time.                                   *)
(***************************************************************************)
DefaultConfig ==
    [itsAllGoodMan |-> FALSE, dropUnauthorized |-> FALSE, enableMetering |-> FALSE,
     maxDatapointsPerRequest |-> 0, splitRequestPerDatapoints |-> MaxInt,
     backends |-> <<"influxdb">>]

InitBatch ==
    /\ \E k \in SplitThresholds, body \in Bodies(MaxPoints) : pr = parseStart(k, body)
    /\ h = DefaultConfig
    /\ RelayIdle
    /\ OthersIdle

ParsePoint ==
    /\ pr.pc = "loop"
    /\ pr.i <= Len(pr.points)
    /\ pr' = parsePoint(pr)
    /\ UNCHANGED <<relayVars, others>>

ParseReturn ==
    /\ pr.pc = "loop"
    /\ pr.i > Len(pr.points)
    /\ pr' = parseReturn(pr)
    /\ UNCHANGED <<relayVars, others>>

NextBatch == ParsePoint \/ ParseReturn

SpecBatch == InitBatch /\ [][NextBatch]_vars

(***************************************************************************)
(* HTTP.ServeHTTP (points.go 517-783), one request.  A request attribute   *)
(* is drawn when the handler first reads it and kept in rq.                *)
(***************************************************************************)
Paths == {"/ping", "/write", "/query"}
Methods == {"GET", "HEAD", "POST", "OPTIONS"}

Running == proc = "up"
At(l) == Running /\ hs.pc = l

\* w.WriteHeader(code), alone or inside jsonError and responseData.Write
\* (792-804, 827-833): the caller sees the first code written.
WriteHeader(code) == w' = Append(w, code)

\* The number of influxdb backends (668-674).
CountInflux(backends) == Cardinality({i \in 1..Len(backends) : backends[i] = "influxdb"})

\* The size of the WaitGroup and of the channel (677, 681).
AttemptsOf(backends, outBytes) ==
    Len(backends) - CountInflux(backends) + CountInflux(backends) * Len(outBytes)

\* /ping, the path and the method (520-541).
Route ==
    /\ At("route")
    /\ \E path \in Paths, method \in Methods :
        /\ rq' = [rq EXCEPT !.path = path, !.method = method]
        /\ IF path = "/ping" /\ method \in {"GET", "HEAD"}
           THEN WriteHeader(204) /\ hs' = [hs EXCEPT !.pc = "done"]
           ELSE IF path # "/write"
           THEN WriteHeader(404) /\ hs' = [hs EXCEPT !.pc = "done"]
           ELSE IF method # "POST"
           THEN /\ WriteHeader(IF method = "OPTIONS" THEN 204 ELSE 405)
                /\ hs' = [hs EXCEPT !.pc = "done"]
           ELSE UNCHANGED w /\ hs' = [hs EXCEPT !.pc = "gzip"]
    /\ UNCHANGED <<pr, others, h, wg, once, responses, tasks, closer, metering, proc>>

\* The gzip reader (549-559): an undecodable body is answered 400 and the
\* handler goes on, with a nil reader as the body.
DecodeGzip ==
    /\ At("gzip")
    /\ \E enc \in {"identity", "gzip", "badgzip"} :
        /\ rq' = [rq EXCEPT !.encoding = enc]
        /\ IF enc = "badgzip" THEN WriteHeader(400) ELSE UNCHANGED w
    /\ hs' = [hs EXCEPT !.pc = "read"]
    /\ UNCHANGED <<pr, others, h, wg, once, responses, tasks, closer, metering, proc>>

\* Reading the body (561-580).  Reading from the nil gzip reader is a nil
\* dereference: the handler panics (the server recovers it and drops the
\* connection).
ReadBody ==
    /\ At("read")
    /\ IF rq.encoding = "badgzip"
       THEN /\ hs' = [hs EXCEPT !.pc = "panic"]
            /\ UNCHANGED <<rq, w>>
       ELSE \E r \in {"unreadable", "read"} :
            /\ rq' = [rq EXCEPT !.body = r]
            /\ IF r = "unreadable"
               THEN /\ WriteHeader(IF h.itsAllGoodMan THEN 204 ELSE 500)
                    /\ hs' = [hs EXCEPT !.pc = "done"]
               ELSE UNCHANGED w /\ hs' = [hs EXCEPT !.pc = "parse"]
    /\ UNCHANGED <<pr, others, h, wg, once, responses, tasks, closer, metering, proc>>

\* models.ParsePointsWithPrecision (582-589).  Writing the points to
\* graphiteBuf (591-606) cannot fail: a bytes.Buffer returns no error.
ParsePoints ==
    /\ At("parse")
    /\ \/ /\ rq' = [rq EXCEPT !.body = "malformed"]
          /\ WriteHeader(400)
          /\ hs' = [hs EXCEPT !.pc = "done"]
       \/ \E b \in RequestBodies :
          /\ rq' = [rq EXCEPT !.body = "points"]
          /\ hs' = [hs EXCEPT !.points = b, !.pc = "split"]
          /\ UNCHANGED w
    /\ UNCHANGED <<pr, others, h, wg, once, responses, tasks, closer, metering, proc>>

\* The call of parseRequest (608-612).
SplitRequest ==
    /\ At("split")
    /\ LET r == parseRequest(h.splitRequestPerDatapoints, hs.points)
       IN  hs' = [hs EXCEPT !.outBytes = r.outBytes,
                            !.totalDatapoints = r.totalDatapoints,
                            !.pc = "identity"]
    /\ UNCHANGED <<pr, others, h, rq, w, wg, once, responses, tasks, closer, metering, proc>>

\* A variant of rejectsUnidentified that ignores the drop-unauthorized option.
rejectsUnidentifiedAlways(cfg, hdr) == hdr = "absent"

\* Whether the request is answered 403 (615-622).
rejectsUnidentified(cfg, hdr) == hdr = "absent" /\ cfg.dropUnauthorized

\* The machine-identity header (614-623).
CheckIdentity ==
    /\ At("identity")
    /\ \E hdr \in {"absent", "present"} :
        /\ rq' = [rq EXCEPT !.machineID = hdr]
        /\ IF rejectsUnidentified(h, hdr)
           THEN WriteHeader(403) /\ hs' = [hs EXCEPT !.pc = "done"]
           ELSE /\ UNCHANGED w
                /\ hs' = [hs EXCEPT !.machineID = IF hdr = "present" THEN "m1" ELSE "",
                                    !.pc = "cap"]
    /\ UNCHANGED <<pr, others, h, wg, once, responses, tasks, closer, metering, proc>>

\* A variant of overCap that also turns away a request exactly at the cap.
overCapInclusive(cfg, totalDatapoints) ==
    cfg.maxDatapointsPerRequest > 0 /\ totalDatapoints >= cfg.maxDatapointsPerRequest

\* Whether the request is over the absolute cap (625).
overCap(cfg, totalDatapoints) ==
    cfg.maxDatapointsPerRequest > 0 /\ totalDatapoints > cfg.maxDatapointsPerRequest

\* The absolute cap (625-629).
CheckCap ==
    /\ At("cap")
    /\ IF overCap(h, hs.totalDatapoints)
       THEN WriteHeader(204) /\ hs' = [hs EXCEPT !.pc = "done"]
       ELSE UNCHANGED w /\ hs' = [hs EXCEPT !.pc = "meter"]
    /\ UNCHANGED <<pr, others, h, rq, wg, once, responses, tasks, closer, metering, proc>>

\* The org id and the metering counters (633-654), under the mutex.
Meter ==
    /\ At("meter")
    /\ \E hdr \in {"absent", "present"} :
        LET orgID == IF hdr = "present" THEN "org1" ELSE "Unauthorized"
        IN  /\ rq' = [rq EXCEPT !.orgID = hdr]
            /\ hs' = [hs EXCEPT !.orgID = orgID, !.pc = "sourceType"]
            /\ metering' = IF h.enableMetering
                           THEN [metering EXCEPT ![<<orgID, hs.machineID>>] = @ + Len(hs.points)]
                           ELSE metering
    /\ UNCHANGED <<pr, others, h, w, wg, once, responses, tasks, closer, proc>>

\* The source-type header (656-660): r.Header[...][0] of an absent header
\* indexes an empty slice, and the handler panics.
ReadSourceType ==
    /\ At("sourceType")
    /\ \E hdr \in {"absent", "windows", "linux"} :
        /\ rq' = [rq EXCEPT !.sourceType = hdr]
        /\ hs' = IF hdr = "absent" THEN [hs EXCEPT !.pc = "panic"]
                 ELSE [hs EXCEPT !.sourceType = IF hdr = "windows" THEN "windows" ELSE "unix",
                                 !.pc = "setup"]
    /\ UNCHANGED <<pr, others, h, w, wg, once, responses, tasks, closer, metering, proc>>

\* The WaitGroup, the Once and the channel (662-681).
Setup ==
    /\ At("setup")
    /\ hs' = [hs EXCEPT !.influxdbBackends = CountInflux(h.backends), !.pc = "ack"]
    /\ wg' = AttemptsOf(h.backends, hs.outBytes)
    /\ responses' = [responses EXCEPT !.cap = AttemptsOf(h.backends, hs.outBytes)]
    /\ UNCHANGED <<pr, others, h, rq, w, once, tasks, closer, metering, proc>>

\* Whether the backends' responses are ignored (683-696).
ignores(cfg) ==
    cfg.itsAllGoodMan \/ \E i \in 1..Len(cfg.backends) : cfg.backends[i] = "graphite"

\* The early acknowledgement (683-696).
Ack ==
    /\ At("ack")
    /\ hs' = [hs EXCEPT !.ignoreResponses = ignores(h), !.pc = "dispatch", !.bi = 1]
    /\ IF ignores(h) THEN WriteHeader(204) ELSE UNCHANGED w
    /\ UNCHANGED <<pr, others, h, rq, wg, once, responses, tasks, closer, metering, proc>>

\* n more goroutines in state t.
Spawn(bag, t, n) == IF n = 0 THEN bag ELSE bag (+) (t :> n)

\* A goroutine moves from state t to state u.
Move(bag, t, u) == (bag (-) SetToBag({t})) (+) SetToBag({u})

InfluxTask(phase, out) == [kind |-> "influxdb", phase |-> phase, out |-> out]
GraphiteTask(phase) == [kind |-> "graphite", phase |-> phase, out |-> NoResponse]

\* One turn of the loop over the backends (698-749).
Dispatch ==
    /\ At("dispatch")
    /\ hs.bi <= Len(h.backends)
    /\ LET b == h.backends[hs.bi]
       IN  \/ /\ b = "influxdb"
              /\ \E db \in (IF rq.db = "unread" THEN {"absent", "present"} ELSE {rq.db}) :
                  /\ rq' = [rq EXCEPT !.db = db]
                  /\ IF db = "absent"
                     THEN /\ WriteHeader(400)
                          /\ hs' = [hs EXCEPT !.pc = "done"]
                          /\ UNCHANGED tasks
                     ELSE /\ tasks' = Spawn(tasks, InfluxTask("run", NoResponse), Len(hs.outBytes))
                          /\ hs' = [hs EXCEPT !.bi = @ + 1]
                          /\ UNCHANGED w
              /\ UNCHANGED <<wg, proc>>
           \/ /\ b = "graphite"
              /\ \/ \* Connect fails: the 500, then log.Fatalf ends the process.
                    /\ WriteHeader(500)
                    /\ proc' = "exited"
                    /\ UNCHANGED <<hs, tasks, wg>>
                 \/ \* The points written to graphiteBuf do not parse.
                    /\ WriteHeader(400)
                    /\ hs' = [hs EXCEPT !.pc = "done"]
                    /\ UNCHANGED <<tasks, wg, proc>>
                 \/ /\ tasks' = Spawn(tasks, GraphiteTask("run"), 1)
                    /\ wg' = wg - 1
                    /\ hs' = [hs EXCEPT !.bi = @ + 1]
                    /\ UNCHANGED <<w, proc>>
              /\ UNCHANGED rq
           \/ /\ b \notin {"influxdb", "graphite"}
              /\ wg' = wg - 1
              /\ hs' = [hs EXCEPT !.bi = @ + 1]
              /\ UNCHANGED <<rq, w, tasks, proc>>
    /\ UNCHANGED <<pr, others, h, once, responses, closer, metering>>

\* The goroutine that closes the channel is started (751-754).
StartCloser ==
    /\ At("dispatch")
    /\ hs.bi > Len(h.backends)
    /\ closer' = "waiting"
    /\ hs' = [hs EXCEPT !.pc = "recv"]
    /\ UNCHANGED <<pr, others, h, rq, w, wg, once, responses, tasks, metering, proc>>

\* wg.Wait() returns; close(responses) (752-753).
CloseResponses ==
    /\ Running
    /\ closer = "waiting"
    /\ wg = 0
    /\ closer' = "closed"
    /\ responses' = [responses EXCEPT !.closed = TRUE]
    /\ UNCHANGED <<pr, others, h, rq, hs, w, wg, once, tasks, metering, proc>>

\* One turn of the loop over the channel (756-771).
Recv ==
    /\ At("recv")
    /\ IF responses.buf # <<>>
       THEN LET resp == Head(responses.buf)
            IN  /\ responses' = [responses EXCEPT !.buf = Tail(@)]
                /\ hs' = IF Class(resp.StatusCode) \in {2, 4}
                         THEN [hs EXCEPT !.pc = "done", !.seen = Append(@, resp.StatusCode)]
                         ELSE [hs EXCEPT !.errResponse = resp,
                                         !.seen = Append(@, resp.StatusCode)]
       ELSE /\ responses.closed
            /\ hs' = [hs EXCEPT !.pc = "final"]
            /\ UNCHANGED responses
    /\ UNCHANGED <<pr, others, h, rq, w, wg, once, tasks, closer, metering, proc>>

\* A variant of finalStatus that always answers service-unavailable.
finalStatusAlways503(errResponse) == 503

\* What the handler writes when no 2xx and no 4xx came (772-782).
finalStatus(errResponse) == IF errResponse.err THEN 503 ELSE errResponse.StatusCode

\* After the channel is closed (772-782).
Final ==
    /\ At("final")
    /\ IF hs.ignoreResponses THEN UNCHANGED w ELSE WriteHeader(finalStatus(hs.errResponse))
    /\ hs' = [hs EXCEPT !.pc = "done"]
    /\ UNCHANGED <<pr, others, h, rq, wg, once, responses, tasks, closer, metering, proc>>

(***************************************************************************)
(* The delivery goroutines (709-720) and responseData.HandleResponse       *)
(* (806-825).                                                              *)
(***************************************************************************)
\* What the one-time action writes (808-814): 204 for a success, the
\* response itself for a user error.
onceStatus(code) == IF Class(code) = 2 THEN 204 ELSE code

\* A variant of firesOnce in which only a success runs the one-time action.
firesOnceOnSuccessOnly(code) == Class(code) = 2

\* Whether HandleResponse runs the one-time action for this status (816-823).
firesOnce(code) == Class(code) \in {2, 4}

\* A goroutine's pushToInfluxdb returns and, unless responses are ignored,
\* HandleResponse runs up to the channel send (711-719, 806-823).  With a nil
\* response HandleResponse dereferences nil (816): the goroutine panics and
\* the process ends, after the deferred wg.Done.
Deliver ==
    /\ Running
    /\ BagIn(InfluxTask("run", NoResponse), tasks)
    /\ \E o \in Outcomes :
        IF hs.ignoreResponses
        THEN /\ tasks' = Move(tasks, InfluxTask("run", NoResponse), InfluxTask("done", o))
             /\ wg' = wg - 1
             /\ UNCHANGED <<w, once, proc>>
        ELSE IF o.err
        THEN /\ tasks' = Move(tasks, InfluxTask("run", NoResponse), InfluxTask("panicked", o))
             /\ wg' = wg - 1
             /\ proc' = "crashed"
             /\ UNCHANGED <<w, once>>
        ELSE /\ tasks' = Move(tasks, InfluxTask("run", NoResponse), InfluxTask("send", o))
             /\ IF firesOnce(o.StatusCode)
                THEN /\ once' = TRUE
                     /\ IF once THEN UNCHANGED w ELSE WriteHeader(onceStatus(o.StatusCode))
                ELSE UNCHANGED <<w, once>>
             /\ UNCHANGED <<wg, proc>>
    /\ UNCHANGED <<pr, others, h, rq, hs, responses, closer, metering>>

\* A send on the buffered channel goes through while the buffer has room;
\* the handler may have returned, and then nothing receives (681, 824).
canSend(ch) == Len(ch.buf) < ch.cap

\* responses <- rd (824), then the deferred wg.Done (710).
Send ==
    /\ Running
    /\ \E o \in Outcomes :
        /\ BagIn(InfluxTask("send", o), tasks)
        /\ canSend(responses)
        /\ tasks' = Move(tasks, InfluxTask("send", o), InfluxTask("done", o))
        /\ responses' = [responses EXCEPT !.buf = Append(@, o)]
    /\ wg' = wg - 1
    /\ UNCHANGED <<pr, others, h, rq, hs, w, once, closer, metering, proc>>

\* go pushToGraphite (742) runs to its end; nothing waits for it.
PushGraphite ==
    /\ Running
    /\ BagIn(GraphiteTask("run"), tasks)
    /\ tasks' = Move(tasks, GraphiteTask("run"), GraphiteTask("done"))
    /\ UNCHANGED <<pr, others, h, rq, hs, w, wg, once, responses, closer, metering, proc>>

(***************************************************************************)
(* Spec: the handler from the arrival of a request until it has replied    *)
(* and returned, or has started its deliveries and waits for them.         *)
(***************************************************************************)
Init ==
    /\ pr = NoFrame
    /\ h \in Configs
    /\ RelayIdle
    /\ OthersIdle

Next ==
    \/ Route \/ DecodeGzip \/ ReadBody \/ ParsePoints \/ SplitRequest
    \/ CheckIdentity \/ CheckCap \/ Meter \/ ReadSourceType \/ Setup \/ Ack
    \/ Dispatch \/ StartCloser

Spec == Init /\ [][Next]_vars

(***************************************************************************)
(* SpecFanout: the fan-out of an admitted request, from the creation of    *)
(* the WaitGroup (676) to the handler's return, with the goroutines.       *)
(***************************************************************************)
\* The bodies of the fan-out: up to MaxPoints points of one float field.
FanoutBodies == {b \in Bodies(MaxPoints) : \A i \in 1..Len(b) : b[i] = <<"Float">>}

\* The configurations of the fan-out: the fields that are read before the
\* fan-out have the values of a relay that checks and counts nothing.
FanoutConfigs ==
    {c \in Configs : /\ ~c.dropUnauthorized
                     /\ ~c.enableMetering
                     /\ c.maxDatapointsPerRequest = 0}

\* An identified request with all its headers, as read up to line 660.
AdmittedRequest ==
    [path |-> "/write", method |-> "POST", encoding |-> "identity", body |-> "points",
     machineID |-> "present", orgID |-> "present", sourceType |-> "linux", db |-> "unread"]

\* The handler's locals at line 662 for that request.
AdmittedHandler(cfg, body) ==
    [NewHandler EXCEPT !.pc = "setup", !.machineID = "m1", !.orgID = "org1",
                       !.sourceType = "unix", !.points = body,
                       !.outBytes = parseRequest(cfg.splitRequestPerDatapoints, body).outBytes,
                       !.totalDatapoints = parseRequest(cfg.splitRequestPerDatapoints, body).totalDatapoints]

InitFanout ==
    /\ pr = NoFrame
    /\ \E cfg \in FanoutConfigs, body \in FanoutBodies :
        /\ CountInflux(cfg.backends)
              * Len(parseRequest(cfg.splitRequestPerDatapoints, body).outBytes) <= MaxAttempts
        /\ h = cfg
        /\ hs = AdmittedHandler(cfg, body)
    /\ rq = AdmittedRequest
    /\ w = <<>>
    /\ wg = 0
    /\ once = FALSE
    /\ responses = [buf |-> <<>>, closed |-> FALSE, cap |-> 0]
    /\ tasks = EmptyBag
    /\ closer = "none"
    /\ metering = NoMetering
    /\ proc = "up"
    /\ OthersIdle

NextFanout ==
    \/ Setup \/ Ack \/ Dispatch \/ StartCloser \/ CloseResponses \/ Recv \/ Final
    \/ Deliver \/ Send \/ PushGraphite

SpecFanout == InitFanout /\ [][NextFanout]_vars

(***************************************************************************)
(* Properties of parseRequest (SpecBatch).                                 *)
(***************************************************************************)
RECURSIVE SumFields(_)
\* The datapoint count of a batch: the numeric fields of its lines.
SumFields(batch) == IF batch = <<>> THEN 0 ELSE Len(Head(batch).fields) + SumFields(Tail(batch))

RECURSIVE Concat(_)
\* The batches joined in emission order.
Concat(batches) == IF batches = <<>> THEN <<>> ELSE Head(batches) \o Concat(Tail(batches))

\* ceil(n / k) for n >= 0, k >= 1.
Ceil(n, k) == IF n % k = 0 THEN n \div k ELSE (n \div k) + 1

IsNumeric(f) == f = "Float" \/ f = "Integer"

\* The number of integer and float fields of the point at position i.
Datapoints(body, i) == Cardinality({j \in 1..Len(body[i]) : IsNumeric(body[i][j])})

BatchDone == pr.pc = "done"

\* C4 as claimed: every emitted batch holds at most k datapoints.
C4_EveryBatchAtMostK ==
    BatchDone => \A b \in 1..Len(pr.outBytes) : SumFields(pr.outBytes[b]) <= pr.k

\* C4 as amended: every emitted batch holds at most k datapoints, unless it
\* is the single line of a point that alone has more than k numeric fields.
C4_BatchAtMostKOrOneOversizeLine ==
    \A b \in 1..Len(pr.outBytes) :
        \/ SumFields(pr.outBytes[b]) <= pr.k
        \/ /\ Len(pr.outBytes[b]) = 1
           /\ Datapoints(pr.points, pr.outBytes[b][1].ts) > pr.k

\* C4's case: a finished call that emitted a full batch of several lines and,
\* after it, the batch of an oversize point.
C4_Witness ==
    /\ BatchDone
    /\ \E b \in 1..Len(pr.outBytes) :
           Len(pr.outBytes[b]) > 1 /\ SumFields(pr.outBytes[b]) = pr.k
    /\ \E b \in 1..Len(pr.outBytes) : SumFields(pr.outBytes[b]) > pr.k

\* C5 as claimed: N datapoints and threshold k give exactly ceil(N/k) batches.
C5_BatchCountIsCeil ==
    BatchDone => Len(pr.outBytes) = Ceil(pr.totalDatapoints, pr.k)

\* C5 as amended: exactly ceil(N/k) batches when no point carries more than
\* one datapoint, and at least ceil(N/k) when no point carries more than k.
C5_BatchCountCeilForUnitPoints ==
    BatchDone =>
        /\ (\A i \in 1..Len(pr.points) : Datapoints(pr.points, i) <= 1)
              => Len(pr.outBytes) = Ceil(pr.totalDatapoints, pr.k)
        /\ (\A i \in 1..Len(pr.points) : Datapoints(pr.points, i) <= pr.k)
              => Len(pr.outBytes) >= Ceil(pr.totalDatapoints, pr.k)

\* C5's case: one-datapoint points split over several batches.
C5_Witness ==
    /\ BatchDone
    /\ \A i \in 1..Len(pr.points) : Datapoints(pr.points, i) <= 1
    /\ pr.totalDatapoints > pr.k
    /\ pr.totalDatapoints % pr.k # 0
    /\ Len(pr.outBytes) = Ceil(pr.totalDatapoints, pr.k)

\* The timestamps of the lines of the joined batches.
EmittedPoints == [j \in 1..Len(Concat(pr.outBytes)) |-> Concat(pr.outBytes)[j].ts]

\* C6 as claimed: the joined batches hold one line per input point, in the
\* order of the input.
C6_OneLinePerPoint ==
    BatchDone => EmittedPoints = [i \in 1..Len(pr.points) |-> i]

RECURSIVE NumericPoints(_, _)
\* The positions, from i on, of the points that have a numeric field.
NumericPoints(body, i) ==
    IF i > Len(body) THEN <<>>
    ELSE IF Datapoints(body, i) > 0 THEN <<i>> \o NumericPoints(body, i + 1)
    ELSE NumericPoints(body, i + 1)

\* C6 as amended: the joined batches hold exactly one line for every input
\* point that has an integer or float field, in the order of the input, each
\* with that point's numeric fields in order; points with no such field are
\* left out.
C6_OneLinePerNumericPoint ==
    BatchDone =>
        /\ EmittedPoints = NumericPoints(pr.points, 1)
        /\ \A j \in 1..Len(Concat(pr.outBytes)) :
              LET l == Concat(pr.outBytes)[j]
              IN  l.fields = SelectSeq(pr.points[l.ts], IsNumeric)

\* C6's case: several batches from a body that also has a point without any
\* numeric field.
C6_Witness ==
    /\ BatchDone
    /\ Len(pr.outBytes) > 1
    /\ Len(EmittedPoints) > 1
    /\ \E i \in 1..Len(pr.points) : Datapoints(pr.points, i) = 0

(***************************************************************************)
(* Properties of the fan-out and of the reply (SpecFanout).                *)
(***************************************************************************)
\* The delivery goroutines whose pushToInfluxdb returned a response with
\* this status and that HandleResponse has handled.
Handled(code) ==
    CopiesIn(InfluxTask("send", Response(code)), tasks)
        + CopiesIn(InfluxTask("done", Response(code)), tasks)

\* No delivery goroutine is still posting.
AllReturned == ~BagIn(InfluxTask("run", NoResponse), tasks)

\* The handler waits for the responses (no early acknowledgement).
Reconciling == ~hs.ignoreResponses

\* C1 as claimed: when the three delivery attempts of a request return a 503,
\* a 200 and a 400, the caller sees the success reply in every order.
C1_SuccessAlwaysWins ==
    (Reconciling /\ Handled(503) = 1 /\ Handled(200) = 1 /\ Handled(400) = 1)
        => w = <<204>>

\* C1 as amended: the caller sees the reply of whichever of the 2xx and 4xx
\* responses is handled first: 204 while only the success has been handled,
\* the 400 while only the user error has been handled, one of the two (and
\* nothing after it) once both have been; the 503 is never what is seen.
C1_FirstSuccessOrUserErrorWins ==
    Reconciling =>
        /\ (Handled(200) > 0 /\ Handled(400) = 0) => w = <<204>>
        /\ (Handled(400) > 0 /\ Handled(200) = 0) => w = <<400>>
        /\ (Handled(200) > 0 /\ Handled(400) > 0) => (w = <<204>> \/ w = <<400>>)

\* C1's case: the three attempts returned 503, 200 and 400, the handler has
\* returned and the caller has the success reply.
C1_Witness ==
    /\ Reconciling
    /\ hs.pc = "done"
    /\ CopiesIn(InfluxTask("done", Response(503)), tasks) = 1
    /\ CopiesIn(InfluxTask("done", Response(200)), tasks) = 1
    /\ CopiesIn(InfluxTask("done", Response(400)), tasks) = 1
    /\ w = <<204>>

\* C2: when every delivery attempt ends without a response, no goroutine
\* faults, the relay stays up, and the handler returns with 503 written.
C2_NoResponseGives503 ==
    (/\ Reconciling
     /\ tasks # EmptyBag
     /\ \A t \in BagToSet(tasks) : t.phase # "run" /\ t.out.err)
        => /\ proc = "up"
           /\ \A t \in BagToSet(tasks) : t.phase # "panicked"
           /\ hs.pc = "done" => w = <<503>>

\* C3 as claimed: when the three attempts return 503, 502 and 504, the
\* caller sees a 503 in every order.
C3_ServerErrorsGive503 ==
    (/\ Reconciling
     /\ hs.pc = "done"
     /\ Handled(503) = 1 /\ Handled(502) = 1 /\ Handled(504) = 1)
        => w = <<503>>

\* Every delivery attempt returned a server error.
AllServerErrors ==
    /\ tasks # EmptyBag
    /\ \A t \in BagToSet(tasks) :
          t.phase = "done" /\ ~t.out.err /\ Class(t.out.StatusCode) = 5

\* C3 as amended: when all attempts return server errors, the caller sees the
\* one the handler took last from the channel: a 5xx, which is the 503 only
\* when the 503 arrives last.
C3_LastServerErrorIsReturned ==
    (Reconciling /\ hs.pc = "done" /\ AllServerErrors)
        => /\ Len(hs.seen) = BagCardinality(tasks)
           /\ w = <<hs.seen[Len(hs.seen)]>>
           /\ Class(w[1]) = 5

\* C3's case: 503, 502 and 504 were returned, the 503 last, and the handler
\* has written it.
C3_Witness ==
    /\ Reconciling
    /\ hs.pc = "done"
    /\ Handled(503) = 1 /\ Handled(502) = 1 /\ Handled(504) = 1
    /\ Len(hs.seen) = 3
    /\ hs.seen[3] = 503
    /\ w = <<503>>

(***************************************************************************)
(* Properties of the admission of a request (Spec).                        *)
(***************************************************************************)
\* parseRequest has returned for the request.
Batched == rq.body = "points" /\ hs.pc # "split"

\* A cap is configured and the request's datapoints exceed it.
OverTheCap ==
    /\ Batched
    /\ h.maxDatapointsPerRequest > 0
    /\ hs.totalDatapoints > h.maxDatapointsPerRequest

\* The identity check has let the request through.
PassedIdentity ==
    /\ rq.machineID # "unread"
    /\ ~(rq.machineID = "absent" /\ h.dropUnauthorized)

\* The goroutines a request starts when its fan-out runs to the end: one per
\* influxdb backend and batch, one per graphite backend.
ExpectedDeliveries ==
    CountInflux(h.backends) * Len(hs.outBytes)
        + Cardinality({i \in 1..Len(h.backends) : h.backends[i] = "graphite"})

\* The counters after the request was counted once, and only then.
CountedOnce ==
    metering = IF h.enableMetering
               THEN [NoMetering EXCEPT ![<<hs.orgID, hs.machineID>>] = Len(hs.points)]
               ELSE NoMetering

\* C7 as claimed: a request over the configured cap is answered 204, starts
\* no delivery and is not counted.
C7_OverCapAlwaysGets204 ==
    (OverTheCap /\ hs.pc = "done")
        => (w = <<204>> /\ tasks = EmptyBag /\ metering = NoMetering)

\* C7 as amended: a request over the configured cap starts no delivery and is
\* not counted; it is answered 204, unless it lacks the machine-identity
\* header and drop-unauthorized is on: the identity check comes first and has
\* answered 403.  A request at or below the cap passes the cap check: it is
\* counted and its fan-out starts every delivery.
C7_OverCapIsDropped ==
    /\ OverTheCap =>
          /\ hs.pc \in {"identity", "cap", "done"}
          /\ tasks = EmptyBag
          /\ metering = NoMetering
          /\ hs.pc = "done" => w = <<IF PassedIdentity THEN 204 ELSE 403>>
    /\ (Batched /\ ~OverTheCap /\ PassedIdentity /\ hs.pc \notin {"cap", "meter"}) =>
          /\ rq.orgID # "unread"
          /\ CountedOnce
          /\ hs.pc = "recv" => BagCardinality(tasks) = ExpectedDeliveries

\* C7's case: a counted relay has answered 204 to a request over its cap.
C7_Witness ==
    /\ OverTheCap
    /\ h.enableMetering
    /\ CountInflux(h.backends) > 0
    /\ hs.pc = "done"
    /\ w = <<204>>

\* C8: without the machine-identity header a request is answered 403, starts
\* no delivery and is not counted when drop-unauthorized is on; when it is
\* off the request is never answered 403, goes on past the identity check
\* with an empty machine id, and its fan-out starts every delivery.
C8_IdentityRequiredMode ==
    /\ (rq.machineID = "absent" /\ h.dropUnauthorized) =>
          /\ hs.pc = "done"
          /\ w = <<403>>
          /\ tasks = EmptyBag
          /\ metering = NoMetering
    /\ (rq.machineID = "absent" /\ ~h.dropUnauthorized) =>
          /\ \A i \in 1..Len(w) : w[i] # 403
          /\ hs.machineID = ""
          /\ hs.pc = "done" => (OverTheCap \/ rq.orgID # "unread")
          /\ hs.pc = "recv" => BagCardinality(tasks) = ExpectedDeliveries

\* C8's case: an unidentified request, drop-unauthorized off, whose
\* deliveries have been started.
C8_Witness ==
    /\ rq.machineID = "absent"
    /\ ~h.dropUnauthorized
    /\ hs.pc = "recv"
    /\ BagCardinality(tasks) > 1
    /\ w = <<>>

\* C9: a request without the source-type header is processed as unix; only
\* the value windows selects windows.
C9_SourceTypeHeaderOptional ==
    /\ rq.sourceType = "absent" => (hs.pc # "panic" /\ hs.sourceType = "unix")
    /\ rq.sourceType = "linux" => hs.sourceType = "unix"
    /\ rq.sourceType = "windows" => hs.sourceType = "windows"

\* C10: with an influxdb backend, a write without the db parameter is
\* answered 400 and starts no delivery, whatever the relay's other options.
C10_MissingDbAnswered400 ==
    (rq.db = "absent" /\ CountInflux(h.backends) > 0)
        => (hs.pc = "done" /\ Len(w) > 0 /\ w[1] = 400 /\ tasks = EmptyBag)

(***************************************************************************)
(* The early acknowledgement (SpecFanout).                                 *)
(***************************************************************************)
\* C11: on a relay that assumes success or has a graphite backend, the 204
\* is written before any delivery is started, and no outcome of a backend
\* (a response, a failed post, a failed connection) changes or adds to the
\* reply or keeps it from the caller.
C11_AckUnaffectedByOutcomes ==
    [][(ignores(h) /\ (tasks' # tasks \/ proc' # proc))
          => (w = <<204>> /\ w' = w /\ proc' = "up")]_vars

(***************************************************************************)
(* SpecBackend: one influxdb backend (newHTTPBackend, 905-948), the calls  *)
(* of pushToInfluxdb on it (974-987) and, when it is buffered, its retry   *)
(* buffer.  newRetryBuffer is called at 939 but defined outside this       *)
(* source: the buffer follows section 4.2 of the specification.            *)
(***************************************************************************)
MaxCapacity == 3    \* largest capacity of the retry buffer, in bytes
MaxBatchBytes == 2  \* largest batch handed to pushToInfluxdb, in bytes
MaxSends == 3       \* calls of pushToInfluxdb
MaxDelay == 2       \* the configured maximum retry delay, in initial delays

\* for i := 0; i < 3; i++ (977)
InlineRetries == 3

\* The backends newHTTPBackend builds: unbuffered (capacity 0), or with a
\* retry buffer of the configured size (924, 939).
BackendConfigs == [buffered : {FALSE}, capacity : {0}] \cup [buffered : {TRUE}, capacity : 1..MaxCapacity]

\* The statuses the backend of this specification answers with.
BackendStatuses == {204, 500}

IdlePush ==
    [pc |-> "idle", batch |-> [id |-> 0, size |-> 0], i |-> 0, posts |-> 0, err |-> "none",
     status |-> 0]

NewBackend(cfg) ==
    [pc |-> "up", buffered |-> cfg.buffered, capacity |-> cfg.capacity,
     queue |-> <<>>, delay |-> 1, reachable |-> TRUE,
     sent |-> 0, direct |-> {}, delivered |-> <<>>, results |-> <<>>,
     push |-> IdlePush]

RECURSIVE TotalBytes(_)
TotalBytes(queue) ==
    IF queue = <<>> THEN 0 ELSE Head(queue).size + TotalBytes(Tail(queue))

\* simplePoster.post (862-896): a response, or the transport's error.
simplePost(b) == IF b.reachable THEN "resp" ELSE "down"

\* The enqueue test of the retry buffer (section 4.2: "if doing so keeps
\* total buffered bytes <= capacity").
fitsBufferIgnoringQueue(b, batch) == batch.size <= b.capacity

fitsBuffer(b, batch) == TotalBytes(b.queue) + batch.size <= b.capacity

\* resp.StatusCode of the response of simplePoster.post (893): what the
\* backend answers, 0 without a response.
StatusCodes(b) == IF simplePost(b) = "resp" THEN BackendStatuses ELSE {0}

\* send of the retry buffer (section 4.2): immediate delivery through the
\* wrapped poster, else the batch is queued, else ErrBufferFull (958).
send(b, batch) ==
    IF simplePost(b) = "resp" THEN "resp"
    ELSE IF fitsBuffer(b, batch) THEN "queued"
    ELSE "full"

\* b.post (975, 984): the poster newHTTPBackend chose (920, 939).
post(b, batch) == IF b.buffered THEN send(b, batch) ELSE simplePost(b)

\* err == nil
IsNil(err) == err \in {"resp", "queued"}

Min(a, b) == IF a <= b THEN a ELSE b

\* pushToInfluxdb is called with a new batch.
PushToInfluxdb ==
    /\ rb.pc = "up"
    /\ rb.push.pc = "idle"
    /\ rb.sent < MaxSends
    /\ \E size \in 1..MaxBatchBytes :
        rb' = [rb EXCEPT !.sent = @ + 1,
                         !.push = [IdlePush EXCEPT !.pc = "post",
                                                   !.batch = [id |-> rb.sent + 1, size |-> size]]]
    /\ UNCHANGED <<pr, relayVars, svc, gm, mr>>

\* b.post returns (975, 984).
Post ==
    /\ rb.pc = "up"
    /\ rb.push.pc = "post"
    /\ \E status \in StatusCodes(rb) :
       LET err == post(rb, rb.push.batch)
       IN  rb' = [rb EXCEPT !.queue = IF err = "queued" THEN Append(@, rb.push.batch) ELSE @,
                            !.direct = IF err = "resp" THEN @ \cup {rb.push.batch.id} ELSE @,
                            !.push.err = err,
                            !.push.status = status,
                            !.push.posts = @ + 1,
                            !.push.pc = "loop"]
    /\ UNCHANGED <<pr, relayVars, svc, gm, mr>>

\* One test of the retry loop (977-985) or the return (986).
retriesOnErrorStatus(p) == p.i < InlineRetries /\ (~IsNil(p.err) \/ p.status >= 400)

retries(p) == p.i < InlineRetries /\ ~IsNil(p.err)

RetryOrReturn ==
    /\ rb.pc = "up"
    /\ rb.push.pc = "loop"
    /\ rb' = IF retries(rb.push)
             THEN [rb EXCEPT !.push.i = @ + 1, !.push.pc = "post"]
             ELSE [rb EXCEPT !.push = IdlePush,
                             !.results = Append(@, [id |-> rb.push.batch.id,
                                                    err |-> rb.push.err,
                                                    posts |-> rb.push.posts])]
    /\ UNCHANGED <<pr, relayVars, svc, gm, mr>>

\* One attempt of the background retry task (section 4.2): the oldest batch
\* is delivered and removed, or it stays and the delay grows up to its cap.
dropsFailedBatch(b) == [b EXCEPT !.queue = Tail(@), !.delay = Min(2 * @, MaxDelay)]

keepsFailedBatch(b) == [b EXCEPT !.delay = Min(2 * @, MaxDelay)]

BackgroundRetry ==
    /\ rb.pc = "up"
    /\ rb.queue # <<>>
    /\ rb' = IF rb.reachable
             THEN [rb EXCEPT !.queue = Tail(@),
                             !.delivered = Append(@, Head(rb.queue).id),
                             !.delay = 1]
             ELSE keepsFailedBatch(rb)
    /\ UNCHANGED <<pr, relayVars, svc, gm, mr>>

\* The backend goes down or comes back.
BackendDown ==
    /\ rb.pc = "up"
    /\ rb.reachable
    /\ rb' = [rb EXCEPT !.reachable = FALSE]
    /\ UNCHANGED <<pr, relayVars, svc, gm, mr>>

BackendUp ==
    /\ rb.pc = "up"
    /\ ~rb.reachable
    /\ rb' = [rb EXCEPT !.reachable = TRUE]
    /\ UNCHANGED <<pr, relayVars, svc, gm, mr>>

InitBackend ==
    /\ pr = NoFrame
    /\ h = DefaultConfig
    /\ RelayIdle
    /\ \E cfg \in BackendConfigs : rb = NewBackend(cfg)
    /\ svc = NoService
    /\ gm = NoCall
    /\ mr = NoRequests

NextBackend ==
    \/ PushToInfluxdb \/ Post \/ RetryOrReturn \/ BackgroundRetry
    \/ BackendDown \/ BackendUp

SpecBackend == InitBackend /\ [][NextBackend]_vars

\* The background retry task is a loop of its own goroutine: it keeps taking
\* steps while the queue is not empty.
SpecBackendLive == SpecBackend /\ WF_vars(BackgroundRetry)

(***************************************************************************)
(* Properties of the retry buffer and of pushToInfluxdb (SpecBackend).     *)
(***************************************************************************)
\* The step is a send of the retry buffer whose delivery failed.
FailedSend ==
    /\ rb.pc = "up"
    /\ rb.buffered
    /\ rb.push.pc = "post"
    /\ rb'.push.pc = "loop"
    /\ ~rb.reachable

\* C12: the bytes held in the pending queue never exceed the capacity; a
\* send whose delivery fails returns at once, with the buffer-full error and
\* the queue unchanged exactly when its batch would push the total above the
\* capacity, however often it is repeated while the queue has not drained,
\* and with the batch appended to the queue otherwise.
C12_QueueWithinCapacity ==
    /\ [](rb.pc = "up" => TotalBytes(rb.queue) <= rb.capacity)
    /\ [][FailedSend =>
            IF TotalBytes(rb.queue) + rb.push.batch.size > rb.capacity
            THEN rb'.push.err = "full" /\ rb'.queue = rb.queue
            ELSE rb'.push.err = "queued" /\ rb'.queue = Append(rb.queue, rb.push.batch)]_vars

\* C12's case: a full queue, and a send that was refused a second time.
C12_Witness ==
    /\ rb.pc = "up"
    /\ rb.queue # <<>>
    /\ TotalBytes(rb.queue) = rb.capacity
    /\ rb.push.err = "full"
    /\ rb.push.posts >= 2

\* C13: the pending queue changes only by the delivery of its oldest batch
\* or by an enqueue at its end, so a failed retry leaves the oldest batch in
\* place; the batches are delivered in the order they were enqueued; and
\* when the backend becomes and stays reachable, every queued batch is
\* delivered and the queue stays empty.
C13_QueuedBatchesDeliveredInOrder ==
    /\ [][(rb.pc = "up" /\ rb'.queue # rb.queue) =>
            \/ /\ rb.queue # <<>>
               /\ rb.reachable
               /\ rb'.queue = Tail(rb.queue)
               /\ rb'.delivered = Append(rb.delivered, Head(rb.queue).id)
            \/ /\ rb'.queue = Append(rb.queue, rb.push.batch)
               /\ rb'.delivered = rb.delivered]_vars
    /\ [](rb.pc = "up" =>
            \A i, j \in 1..Len(rb.delivered) : i < j => rb.delivered[i] < rb.delivered[j])
    /\ (<>[](rb.pc = "up" /\ rb.reachable)) => <>[](rb.queue = <<>>)

\* C13's case: one queued batch has been delivered, and the retry of the
\* next one has failed and left it at the head of the queue.
C13_Witness ==
    /\ rb.pc = "up"
    /\ Len(rb.delivered) >= 1
    /\ rb.queue # <<>>
    /\ rb.delay > 1
    /\ ~rb.reachable

\* C20: after a send of a buffered backend has failed with the buffer-full
\* error, pushToInfluxdb makes no further send for that batch and returns
\* that error.
C20_BufferFullNotRetried ==
    (rb.pc = "up" /\ rb.buffered) =>
        /\ rb.push.err = "full" => rb.push.pc # "post"
        /\ \A k \in 1..Len(rb.results) :
              rb.results[k].err = "full" => rb.results[k].posts = 1

(***************************************************************************)
(* SpecNew: New (270-319), the construction of the service from its        *)
(* configuration, one relay at a time.  A string is the tuple of its       *)
(* parts, so that "http://a1" is the same name however it came about.      *)
(***************************************************************************)
MaxRelays == 2      \* relays of one configuration

Addrs == {"a1", "a2"}

\* The configured names; <<>> is the empty string.
RelayNames == {<<"relay1">>, <<"http", "a1">>}

\* The entries of a configuration, per kind.  ok: whether the relay's
\* constructor succeeds (for NewHTTP: whether every output's timeout and
\* retry delay parse, 427-431).
HTTPEntries ==
    [kind : {"http"}, name : RelayNames \cup {<<>>}, addr : Addrs,
     cert : BOOLEAN, ok : BOOLEAN]

OtherEntries ==
    [kind : {"udp", "beringei", "graphite"}, name : RelayNames, addr : {"a1"},
     cert : {FALSE}, ok : BOOLEAN]

\* New goes through config.HTTPRelays, UDPRelays, BeringeiRelays and
\* GraphiteRelays in this order.
KindOrder(kind) ==
    CASE kind = "http" -> 1 [] kind = "udp" -> 2 [] kind = "beringei" -> 3 [] kind = "graphite" -> 4

ServiceConfigs ==
    {c \in UNION {[1..n -> HTTPEntries \cup OtherEntries] : n \in 0..MaxRelays} :
        \A i \in 1..Len(c) : \A j \in 1..Len(c) :
            i < j => KindOrder(c[i].kind) <= KindOrder(c[j].kind)}

\* h.schema (422-425)
Schema(e) == IF e.cert THEN "https" ELSE "http"

\* HTTP.Name (467-472)
NameWithoutDefault(e) == e.name

Name(e) == IF e.name = <<>> THEN <<Schema(e), e.addr>> ELSE e.name

\* h.Name(), u.Name(), b.Name(), g.Name() (279, 290, 301, 312)
RelayName(e) == IF e.kind = "http" THEN Name(e) ELSE e.name

\* s.relays[name] != nil
duplicate(relays, name) == name \in DOMAIN relays

NewService(config) ==
    [pc |-> "new", config |-> config, i |-> 1, relays |-> <<>>, err |-> "nil",
     returned |-> "none"]

\* One turn of one of the four loops of New.
newRelay(s) ==
    LET e == s.config[s.i]
    IN  IF ~e.ok
        THEN [s EXCEPT !.pc = "failed", !.err = "constructor", !.returned = "nil"]
        ELSE IF duplicate(s.relays, RelayName(e))
        THEN [s EXCEPT !.pc = "failed", !.err = "duplicate", !.returned = "nil"]
        ELSE [s EXCEPT !.relays = (RelayName(e) :> s.i) @@ @, !.i = @ + 1]

InNew(kind) ==
    /\ svc.pc = "new"
    /\ svc.i <= Len(svc.config)
    /\ svc.config[svc.i].kind = kind

NewHTTPRelay ==
    /\ InNew("http")
    /\ svc' = newRelay(svc)
    /\ UNCHANGED <<pr, relayVars, rb, gm, mr>>

NewUDPRelay ==
    /\ InNew("udp")
    /\ svc' = newRelay(svc)
    /\ UNCHANGED <<pr, relayVars, rb, gm, mr>>

NewBeringeiRelay ==
    /\ InNew("beringei")
    /\ svc' = newRelay(svc)
    /\ UNCHANGED <<pr, relayVars, rb, gm, mr>>

NewGraphiteRelay ==
    /\ InNew("graphite")
    /\ svc' = newRelay(svc)
    /\ UNCHANGED <<pr, relayVars, rb, gm, mr>>

\* return s, nil (318)
NewReturn ==
    /\ svc.pc = "new"
    /\ svc.i > Len(svc.config)
    /\ svc' = [svc EXCEPT !.pc = "built", !.returned = "service"]
    /\ UNCHANGED <<pr, relayVars, rb, gm, mr>>

InitNew ==
    /\ pr = NoFrame
    /\ h = DefaultConfig
    /\ RelayIdle
    /\ rb = NoBackend
    /\ \E config \in ServiceConfigs : svc = NewService(config)
    /\ gm = NoCall
    /\ mr = NoRequests

NextNew ==
    \/ NewHTTPRelay \/ NewUDPRelay \/ NewBeringeiRelay \/ NewGraphiteRelay \/ NewReturn

SpecNew == InitNew /\ [][NextNew]_vars

(***************************************************************************)
(* Properties of New (SpecNew).                                            *)
(***************************************************************************)
NewDone == svc.pc \in {"built", "failed"}

\* The name the configuration gives entry e.
ConfiguredName(e) ==
    IF e.kind = "http" /\ e.name = <<>>
    THEN <<IF e.cert THEN "https" ELSE "http", e.addr>>
    ELSE e.name

\* The entries that repeat the name of an earlier entry, and the entries
\* whose constructor fails.
Repeats(c) ==
    {j \in 1..Len(c) : \E i \in 1..(j - 1) : ConfiguredName(c[i]) = ConfiguredName(c[j])}

Broken(c) == {j \in 1..Len(c) : ~c[j].ok}

Least(S) == CHOOSE x \in S : \A y \in S : x <= y

\* C14 as claimed: New fails with the duplicate-relay error and returns no
\* service whenever two configured relays have the same name; when all names
\* are distinct the service holds one relay per configured entry.
C14_DuplicateNameFails ==
    NewDone =>
        IF Repeats(svc.config) # {}
        THEN svc.pc = "failed" /\ svc.err = "duplicate" /\ svc.returned = "nil"
        ELSE /\ svc.pc = "built"
             /\ svc.returned = "service"
             /\ Cardinality(DOMAIN svc.relays) = Len(svc.config)

\* C14 as amended: New returns no service whenever two configured relays
\* have the same name or a relay's constructor fails; the error is the
\* duplicate-relay error when the first repeated name comes before the first
\* failing constructor, and that constructor's error otherwise.  When all
\* names are distinct and every constructor succeeds, the service holds
\* exactly one relay per configured entry, under its name.
C14_DuplicateOrConstructorErrorFails ==
    NewDone =>
        LET c == svc.config
        IN  IF Repeats(c) # {} \/ Broken(c) # {}
            THEN /\ svc.pc = "failed"
                 /\ svc.returned = "nil"
                 /\ svc.err = IF /\ Repeats(c) # {}
                                 /\ \A b \in Broken(c) : Least(Repeats(c)) < b
                              THEN "duplicate" ELSE "constructor"
            ELSE /\ svc.pc = "built"
                 /\ svc.returned = "service"
                 /\ DOMAIN svc.relays = {ConfiguredName(c[i]) : i \in 1..Len(c)}
                 /\ Cardinality(DOMAIN svc.relays) = Len(c)
                 /\ \A i \in 1..Len(c) : svc.relays[ConfiguredName(c[i])] = i

\* C14's case: New has refused an unnamed HTTP relay whose schema://address
\* is the configured name of another relay.
C14_Witness ==
    /\ svc.pc = "failed"
    /\ svc.err = "duplicate"
    /\ svc.i = 2
    /\ svc.config[2].kind = "http"
    /\ svc.config[2].name = <<>>
    /\ svc.config[1].name # <<>>

(***************************************************************************)
(* SpecService: Service.Run (321-337) and Service.Stop (339-343) on a      *)
(* service of HTTP relays, with HTTP.Run (474-507) and HTTP.Stop (509-515) *)
(* of each relay.  Stop may be called at any time after construction.      *)
(***************************************************************************)
\* A relay as NewHTTP leaves it (413-465).  certOk: the relay has no
\* certificate, or one that loads.  life: the lifecycle states it has been in.
NewRelayState(cronSchedule, certOk) ==
    [cronSchedule |-> cronSchedule, certOk |-> certOk,
     cronJob |-> IF cronSchedule THEN "new" ELSE "nil",
     closing |-> 0, l |-> "nil",
     run |-> "none", bindErr |-> FALSE, sock |-> "none", result |-> "none",
     stopWhen |-> "none", life |-> <<"stopped">>]

RelayStates == {NewRelayState(c, k) : c \in BOOLEAN, k \in BOOLEAN}

BuiltService(relays) ==
    [pc |-> "built", relays |-> relays, wg |-> 0,
     stop |-> [pc |-> "idle", j |-> 0], proc |-> "up"]

\* stopped, listening or draining.
Lifecycle(r) ==
    IF r.run # "serving" THEN "stopped"
    ELSE IF r.closing = 0 /\ r.sock = "open" THEN "listening"
    ELSE "draining"

\* The relay after a step, with its lifecycle history brought up to date.
Logged(r) ==
    IF Lifecycle(r) = r.life[Len(r.life)] THEN r
    ELSE [r EXCEPT !.life = Append(@, Lifecycle(r))]

ServiceUp == svc.pc \in {"built", "wait", "returned"} /\ svc.proc = "up"

\* Service.Run up to wg.Wait (322-334): the counter and one goroutine per relay.
ServiceRun ==
    /\ ServiceUp
    /\ svc.pc = "built"
    /\ svc' = [svc EXCEPT !.pc = "wait",
                          !.wg = Len(svc.relays),
                          !.relays = [i \in 1..Len(svc.relays) |->
                                         [svc.relays[i] EXCEPT !.run = "start"]]]
    /\ UNCHANGED <<pr, relayVars, rb, gm, mr>>

\* wg.Wait returns (336).
waitOverTooEarly(s) == s.wg < Len(s.relays)

waitOver(s) == s.wg = 0

ServiceWait ==
    /\ ServiceUp
    /\ svc.pc = "wait"
    /\ waitOver(svc)
    /\ svc' = [svc EXCEPT !.pc = "returned"]
    /\ UNCHANGED <<pr, relayVars, rb, gm, mr>>

\* HTTP.Run: net.Listen and the start of the schedule (475-480).
RunStart ==
    /\ ServiceUp
    /\ \E i \in 1..Len(svc.relays), bound \in BOOLEAN :
        /\ svc.relays[i].run = "start"
        /\ svc' = [svc EXCEPT !.relays[i] =
                      [@ EXCEPT !.run = "bind",
                                !.bindErr = ~bound,
                                !.sock = IF bound THEN "open" ELSE "none",
                                !.cronJob = IF @ = "nil" THEN "nil" ELSE "running"]]
    /\ UNCHANGED <<pr, relayVars, rb, gm, mr>>

\* HTTP.Run: the error of Listen or of the certificate is returned
\* (482-491), in the goroutine of Service.Run (328-332).
RunFails ==
    /\ ServiceUp
    /\ \E i \in 1..Len(svc.relays) :
        /\ svc.relays[i].run = "bind"
        /\ svc.relays[i].bindErr \/ ~svc.relays[i].certOk
        /\ svc' = [svc EXCEPT !.relays[i] = [@ EXCEPT !.run = "returned", !.result = "err"],
                              !.wg = @ - 1]
    /\ UNCHANGED <<pr, relayVars, rb, gm, mr>>

\* HTTP.Run: h.l is set and http.Serve is entered (498-502).
RunServe ==
    /\ ServiceUp
    /\ \E i \in 1..Len(svc.relays) :
        /\ svc.relays[i].run = "bind"
        /\ ~svc.relays[i].bindErr /\ svc.relays[i].certOk
        /\ svc' = [svc EXCEPT !.relays[i] = Logged([@ EXCEPT !.run = "serving", !.l = "set"])]
    /\ UNCHANGED <<pr, relayVars, rb, gm, mr>>

\* What Run returns after http.Serve (503-506).
serveResultIgnoresClosing(r) == "err"

serveResult(r) == IF r.closing # 0 THEN "nil" ELSE "err"

\* http.Serve returns, because the listener was closed or because accepting
\* failed; Run returns (502-506) and the goroutine is done (328-332).
ServeReturns ==
    /\ ServiceUp
    /\ \E i \in 1..Len(svc.relays) :
        /\ svc.relays[i].run = "serving"
        /\ svc' = [svc EXCEPT !.relays[i] =
                      Logged([@ EXCEPT !.run = "returned", !.sock = "closed",
                                       !.result = serveResult(svc.relays[i])]),
                              !.wg = @ - 1]
    /\ UNCHANGED <<pr, relayVars, rb, gm, mr>>

\* Service.Stop is called (339-343).
ServiceStop ==
    /\ ServiceUp
    /\ svc.stop.pc = "idle"
    /\ svc' = [svc EXCEPT !.stop = [pc |-> "mark", j |-> 1]]
    /\ UNCHANGED <<pr, relayVars, rb, gm, mr>>

\* HTTP.Stop: the closing flag and the schedule (510-513).
StopMark ==
    /\ ServiceUp
    /\ svc.stop.pc = "mark"
    /\ LET j == svc.stop.j
       IN  svc' = [svc EXCEPT !.stop.pc = "close",
                              !.relays[j] =
                                  Logged([@ EXCEPT !.closing = 1,
                                                   !.cronJob = IF @ = "running" THEN "stopped" ELSE @,
                                                   !.stopWhen = Lifecycle(svc.relays[j])])]
    /\ UNCHANGED <<pr, relayVars, rb, gm, mr>>

\* HTTP.Stop: h.l.Close() (514); on a nil h.l the call panics.
StopClose ==
    /\ ServiceUp
    /\ svc.stop.pc = "close"
    /\ LET j == svc.stop.j
       IN  IF svc.relays[j].l = "nil"
           THEN svc' = [svc EXCEPT !.proc = "crashed"]
           ELSE svc' = [svc EXCEPT !.relays[j] = Logged([@ EXCEPT !.sock = "closed"]),
                                   !.stop = IF j < Len(svc.relays)
                                            THEN [pc |-> "mark", j |-> j + 1]
                                            ELSE [pc |-> "done", j |-> j]]
    /\ UNCHANGED <<pr, relayVars, rb, gm, mr>>

InitService ==
    /\ pr = NoFrame
    /\ h = DefaultConfig
    /\ RelayIdle
    /\ rb = NoBackend
    /\ \E relays \in UNION {[1..n -> RelayStates] : n \in 1..MaxRelays} :
          svc = BuiltService(relays)
    /\ gm = NoCall
    /\ mr = NoRequests

NextService ==
    \/ ServiceRun \/ ServiceWait \/ RunStart \/ RunFails \/ RunServe \/ ServeReturns
    \/ ServiceStop \/ StopMark \/ StopClose

SpecService == InitService /\ [][NextService]_vars

(***************************************************************************)
(* Properties of Service.Run and of the relays' lifecycle (SpecService).   *)
(***************************************************************************)
RelayIds == 1..Len(svc.relays)

\* C15: Service.Run starts every relay; it has returned only when every
\* relay's Run has returned; and the return of one relay's Run with an error
\* changes nothing for the other relays and does not end Service.Run.
C15_RunWaitsForEveryRelay ==
    /\ [](svc.pc \in {"wait", "returned"} =>
            \A i \in RelayIds : svc.relays[i].run # "none")
    /\ [](svc.pc = "returned" =>
            \A i \in RelayIds : svc.relays[i].run = "returned")
    /\ [][\A i \in RelayIds :
            (svc.relays[i].result = "none" /\ svc'.relays[i].result = "err") =>
                /\ \A j \in RelayIds \ {i} : svc'.relays[j] = svc.relays[j]
                /\ svc'.pc = "wait"]_vars

\* C15's case: Service.Run has returned after one relay failed to start and
\* another one served until it was stopped.
C15_Witness ==
    /\ svc.pc = "returned"
    /\ \E i, j \in RelayIds :
          /\ svc.relays[i].result = "err"
          /\ svc.relays[i].bindErr
          /\ svc.relays[j].result = "nil"

IsPrefix(s, t) == Len(s) <= Len(t) /\ \A k \in 1..Len(s) : s[k] = t[k]

\* Stop has closed the listener of relay i.
StopReturned(i) == svc.stop.j > i \/ svc.stop.pc = "done"

\* C16: a relay on which Stop was called while it was listening has its
\* closing flag set and its schedule, when one is configured, stopped; once
\* Stop has returned its listener is closed; its Run returns nil; and it goes
\* through stopped, listening, draining, stopped.  No relay is listening a
\* second time.
C16_StopOnListeningRelay ==
    svc.pc \in {"built", "wait", "returned"} =>
        \A i \in RelayIds :
            LET r == svc.relays[i]
            IN  /\ r.stopWhen = "listening" =>
                      /\ r.closing = 1
                      /\ r.cronSchedule => r.cronJob = "stopped"
                      /\ StopReturned(i) => r.sock = "closed"
                      /\ r.run = "returned" => r.result = "nil"
                      /\ IsPrefix(r.life, <<"stopped", "listening", "draining", "stopped">>)
                /\ Cardinality({k \in 1..Len(r.life) : r.life[k] = "listening"}) <= 1

\* C16's case: a relay with a schedule was stopped while listening and its
\* Run has returned.
C16_Witness ==
    /\ svc.pc \in {"wait", "returned"}
    /\ \E i \in RelayIds :
          /\ svc.relays[i].stopWhen = "listening"
          /\ svc.relays[i].cronSchedule
          /\ svc.relays[i].run = "returned"
          /\ svc.relays[i].result = "nil"
          /\ svc.relays[i].life = <<"stopped", "listening", "draining", "stopped">>

(***************************************************************************)
(* SpecTranslate: GraphiteMetric (46-82) and its parse functions (84-255), *)
(* applied to one point and then to its own output.  A string is the       *)
(* sequence of its parts; the strings the two regular expressions of       *)
(* parseCPU look into are sequences of single characters.                  *)
(***************************************************************************)
MaxTagLen == 3      \* length of the generated cpu tags

\* time.Unix(timestamp/1000000000, 0) (75)
NanosPerSecond == 1000000000

\* The characters the generated cpu tags are made of.
TagAlphabet == {"c", "-", "0", "!"}

\* The characters used that are outside [a-zA-Z0-9].
NonAlnum == {"-", "_", "!", "."}

IsAlnum(c) == c \notin NonAlnum

CpuTags ==
    UNION {[1..n -> TagAlphabet] : n \in 0..MaxTagLen}
        \cup {<<"c", "p", "u", "0">>, <<"c", "p", "u", "-", "t", "o", "t", "a", "l">>, <<"c", "p", "u", "1", "2">>, <<"t", "o", "t", "a", "l">>, <<"c", "p", "u">>}

CpuFields == {<<"u", "s", "a", "g", "e", "_", "i", "d", "l", "e">>, <<"u", "s", "a", "g", "e", "_", "i", "o", "w", "a", "i", "t">>, <<"u", "s", "a", "g", "e", "_", "i", "r", "q">>, <<"u", "s", "a", "g", "e", "_", "g", "u", "e", "s", "t">>, <<"u", "s", "a", "g", "e", "_">>, <<"i", "d", "l", "e">>}

Fields ==
    CpuFields \cup {<<"load1">>, <<"load15">>, <<"in">>, <<"bytes_recv">>, <<"err_out">>,
                    <<"write_time">>, <<"read_bytes">>, <<"used">>, <<"value">>}

Measurements ==
    {<<"cpu">>, <<"disk">>, <<"diskio">>, <<"net">>, <<"mem">>, <<"system">>, <<"swap">>,
     <<"temp">>, <<"memory">>}

\* The measurements GraphiteMetric has a case for (51-65).
MappingTable ==
    {<<"cpu">>, <<"disk">>, <<"diskio">>, <<"net">>, <<"mem">>, <<"system">>, <<"swap">>}

\* The tag sets: a cpu tag, or tags of the other measurements, each with or
\* without the machine id.
TagSets ==
    LET Maps(keys, vals) == UNION {[d -> vals] : d \in SUBSET keys}
    IN  {ct @@ mt : ct \in UNION {[{"cpu"} -> CpuTags], {<<>>}},
                    mt \in Maps({"machine_id"}, {<<"m1">>})}
          \cup {dt @@ it @@ mt : dt \in Maps({"device", "name"}, {<<"sda">>}),
                                 it \in Maps({"interface"}, {<<"all">>, <<"eth0">>}),
                                 mt \in Maps({"machine_id"}, {<<"m1">>})}

Timestamps == {0, NanosPerSecond + 1, 2 * NanosPerSecond}

\* tags[key]: the empty string for a missing key.
Tag(tags, key) == IF key \in DOMAIN tags THEN tags[key] ELSE <<>>

Max(S) == CHOOSE x \in S : \A y \in S : y <= x

\* The regexp .*[cpu-](.*[a-zA-Z0-9]) with FindStringSubmatch (89-90): the last
\* of c, p, u, - that has an alphanumeric character after it, and what
\* follows it up to the last alphanumeric character.
FindCPU(s) ==
    LET alnum == {j \in 1..Len(s) : IsAlnum(s[j])}
        heads == {i \in 1..Len(s) : s[i] \in {"c", "p", "u", "-"} /\ \E j \in alnum : j > i}
    IN  IF heads = {} THEN <<>>
        ELSE <<SubSeq(s, 1, Max(alnum)), SubSeq(s, Max(heads) + 1, Max(alnum))>>

\* The regexp usage_(.*[a-zA-Z0-9]) with FindStringSubmatch (104-105).
FindUsage(s) ==
    LET alnum == {j \in 1..Len(s) : IsAlnum(s[j])}
        starts == {i \in 1..(Len(s) - 5) :
                      /\ SubSeq(s, i, i + 5) = <<"u", "s", "a", "g", "e", "_">>
                      /\ \E j \in alnum : j > i + 5}
        first == CHOOSE i \in starts : \A k \in starts : i <= k
    IN  IF starts = {} THEN <<>>
        ELSE <<SubSeq(s, first, Max(alnum)), SubSeq(s, first + 6, Max(alnum))>>

Nil == [nil |-> TRUE]
Fault == [fault |-> TRUE]

\* map[string]interface{}{field: value}
Parsed(field, value, name) == [field |-> field, value |-> value, name |-> name]

\* The cpu suffix (91-95): the last submatch, when there is one.
cpuSuffixUnchecked(match) ==
    IF Len(match) = 0 THEN Fault ELSE [suffix |-> match[Len(match)]]

cpuSuffix(match) ==
    IF Len(match) > 1 THEN [suffix |-> match[Len(match)]] ELSE Nil

\* parseCPU (84-137)
parseCPU(tags, field, metricName, value) ==
    LET cpuFix == cpuSuffix(FindCPU(Tag(tags, "cpu")))
        match == FindUsage(field)
        stripped == IF Len(match) > 0 THEN match[Len(match)] ELSE field
        fieldFix == CASE stripped = <<"i", "o", "w", "a", "i", "t">> -> <<"w", "a", "i", "t">>
                      [] stripped = <<"i", "r", "q">> -> <<"i", "n", "t", "e", "r", "r", "u", "p", "t">>
                      [] OTHER -> stripped
        metricNameFixed == IF cpuFix.suffix = <<"t", "o", "t", "a", "l">> THEN <<"cpu_extra.total">>
                           ELSE <<"cpu", ".">> \o cpuFix.suffix
    IN  IF cpuFix \in {Nil, Fault} THEN cpuFix
        ELSE IF fieldFix \in {<<"i", "d", "l", "e">>, <<"i", "n", "t", "e", "r", "r", "u", "p", "t">>, <<"n", "i", "c", "e">>, <<"s", "o", "f", "t", "i", "r", "q">>,
                              <<"s", "t", "e", "a", "l">>, <<"s", "y", "s", "t", "e", "m">>, <<"u", "s", "e", "r">>, <<"w", "a", "i", "t">>}
        THEN Parsed(fieldFix, value, metricNameFixed)
        ELSE Parsed(fieldFix, value, <<"cpu_extra">>)

\* parseMem (139-157)
parseMem(tags, field, metricName, value) ==
    IF field \in {<<"buffered">>, <<"cached">>, <<"free">>, <<"slab_recl">>,
                  <<"slab_unrecl">>, <<"used">>}
    THEN Parsed(field, value, <<"memory">>)
    ELSE Parsed(field, value, <<"memory_extra">>)

\* parseSystem (159-179)
parseSystem(tags, field, metricName, value) ==
    CASE field = <<"load1">> -> Parsed(<<"shortterm">>, value, <<"load">>)
      [] field = <<"load5">> -> Parsed(<<"midterm">>, value, <<"load">>)
      [] field = <<"load15">> -> Parsed(<<"longterm">>, value, <<"load">>)
      [] OTHER -> Parsed(field, value, metricName)

\* parseSwap (181-193)
parseSwap(tags, field, value) ==
    CASE field = <<"in">> -> Parsed(<<"swap_io.in">>, value, <<>>)
      [] field = <<"out">> -> Parsed(<<"swap_io.out">>, value, <<>>)
      [] OTHER -> Parsed(field, value, <<>>)

\* parseNet (195-228)
parseNet(tags, field, metricName, value) ==
    LET iface == <<"interface", ".">> \o Tag(tags, "interface")
    IN  IF Tag(tags, "interface") = <<"all">> THEN Nil
        ELSE CASE field = <<"bytes_recv">> -> Parsed(<<"rx">>, value, iface \o <<".if_octets">>)
               [] field = <<"bytes_sent">> -> Parsed(<<"tx">>, value, iface \o <<".if_octets">>)
               [] field = <<"packets_recv">> -> Parsed(<<"rx">>, value, iface \o <<".if_packets">>)
               [] field = <<"packets_sent">> -> Parsed(<<"tx">>, value, iface \o <<".if_packets">>)
               [] field = <<"err_in">> -> Parsed(<<"rx">>, value, iface \o <<".if_errors">>)
               [] field = <<"err_out">> -> Parsed(<<"tx">>, value, iface \o <<".if_errors">>)
               [] OTHER -> Parsed(field, value, <<"interface">>)

\* parseDiskio (230-255)
parseDiskio(tags, field, metricName, value) ==
    LET disk == <<"disk", ".">> \o Tag(tags, "name")
    IN  CASE field = <<"write_time">> -> Parsed(<<"write">>, value, disk \o <<".disk_time">>)
          [] field = <<"read_time">> -> Parsed(<<"read">>, value, disk \o <<".disk_time">>)
          [] field = <<"write_bytes">> -> Parsed(<<"write">>, value, disk \o <<".disk_octets">>)
          [] field = <<"read_bytes">> -> Parsed(<<"read">>, value, disk \o <<".disk_octets">>)
          [] OTHER -> Parsed(field, value, <<"disk_extra", ".">> \o Tag(tags, "name"))

\* The default case (66-67): the field and the name as they are.
passThroughPrefixed(metricName, field, value) == Parsed(field, value, <<"bucky", ".">> \o metricName)

passThrough(metricName, field, value) == Parsed(field, value, metricName)

\* metric.New(metricName, {"id": tags["machine_id"]}, parsedMetric, time) (71-76)
NewMetric(p, tags, timestamp) ==
    [name |-> p.name, tags |-> ("id" :> Tag(tags, "machine_id")),
     field |-> p.field, value |-> p.value, time |-> timestamp \div NanosPerSecond]

\* GraphiteMetric (46-82)
GraphiteMetric(metricName, tags, timestamp, value, field) ==
    LET p == CASE metricName = <<"cpu">> -> parseCPU(tags, field, metricName, value)
               [] metricName = <<"disk">> ->
                     Parsed(field, value, <<"df", ".">> \o Tag(tags, "device") \o <<".df_complex">>)
               [] metricName = <<"diskio">> -> parseDiskio(tags, field, metricName, value)
               [] metricName = <<"net">> -> parseNet(tags, field, metricName, value)
               [] metricName = <<"mem">> -> parseMem(tags, field, metricName, value)
               [] metricName = <<"system">> -> parseSystem(tags, field, metricName, value)
               [] metricName = <<"swap">> ->
                     [parseSwap(tags, field, value) EXCEPT !.name = metricName]
               [] OTHER -> passThrough(metricName, field, value)
    IN  IF p \in {Nil, Fault} THEN p ELSE NewMetric(p, tags, timestamp)

IsMetric(m) == m \notin {Nil, Fault}

\* GraphiteMetric is called on a point.
Translate ==
    /\ gm.pc = "call"
    /\ gm' = [gm EXCEPT !.pc = "translated",
                        !.out = GraphiteMetric(gm.metricName, gm.tags, gm.timestamp,
                                               gm.value, gm.field)]
    /\ UNCHANGED <<pr, relayVars, rb, svc, mr>>

\* GraphiteMetric is called on the metric it returned: its name, its tags,
\* its time in nanoseconds, and its one field and value.
Retranslate ==
    /\ gm.pc = "translated"
    /\ IsMetric(gm.out)
    /\ gm' = [gm EXCEPT !.pc = "again",
                        !.again = GraphiteMetric(gm.out.name, gm.out.tags,
                                                 gm.out.time * NanosPerSecond,
                                                 gm.out.value, gm.out.field)]
    /\ UNCHANGED <<pr, relayVars, rb, svc, mr>>

InitTranslate ==
    /\ pr = NoFrame
    /\ h = DefaultConfig
    /\ RelayIdle
    /\ rb = NoBackend
    /\ svc = NoService
    /\ mr = NoRequests
    /\ \E metricName \in Measurements, tags \in TagSets, timestamp \in Timestamps,
          field \in Fields :
          gm = [pc |-> "call", metricName |-> metricName, tags |-> tags,
                timestamp |-> timestamp, value |-> 1, field |-> field,
                out |-> Nil, again |-> Nil]

NextTranslate == Translate \/ Retranslate

SpecTranslate == InitTranslate /\ [][NextTranslate]_vars

(***************************************************************************)
(* Properties of GraphiteMetric (SpecTranslate).                           *)
(***************************************************************************)
\* The cpu tag has no c, p, u or - with an alphanumeric character after it:
\* there is no core index or "total" to take from it.
Unparsable(tag) ==
    ~\E i \in 1..Len(tag) : \E j \in (i + 1)..Len(tag) :
        tag[i] \in {"c", "p", "u", "-"} /\ tag[j] \notin NonAlnum

\* C17: GraphiteMetric never faults: its result is a drop or a metric, for
\* every measurement, field and tag set, on a point and on its own output;
\* a cpu point whose cpu tag is missing, empty or unparsable is dropped, and
\* a cpu point with a parsable tag is not.
C17_TranslatorNeverFaults ==
    gm.pc \in {"translated", "again"} =>
        /\ gm.out # Fault
        /\ gm.again # Fault
        /\ gm.metricName = <<"cpu">> =>
              (gm.out = Nil <=> Unparsable(Tag(gm.tags, "cpu")))

\* C17's case: a cpu point whose tag has characters but no core index.
C17_Witness ==
    /\ gm.pc = "translated"
    /\ gm.metricName = <<"cpu">>
    /\ "cpu" \in DOMAIN gm.tags
    /\ Len(gm.tags["cpu"]) = 3
    /\ gm.out = Nil

Unmapped == gm.pc \in {"translated", "again"} /\ gm.metricName \notin MappingTable

\* C18 as claimed: for a measurement outside the mapping table the name and
\* the field come back unchanged, and the translator applied to its own
\* output returns that output unchanged.
C18_FixedPoint ==
    Unmapped =>
        /\ gm.out.name = gm.metricName
        /\ gm.out.field = gm.field
        /\ gm.pc = "again" => gm.again = gm.out

\* C18 as amended: for a measurement outside the mapping table the name and
\* the field come back unchanged, and the translator applied to its own
\* output returns the same name, field, value and timestamp; the id tag of
\* the second result is empty, because the output carries no machine_id tag,
\* so the output is a fixed point exactly when its id is empty.
C18_FixedPointButForId ==
    Unmapped =>
        /\ gm.out.name = gm.metricName
        /\ gm.out.field = gm.field
        /\ gm.out.value = gm.value
        /\ gm.out.tags = ("id" :> Tag(gm.tags, "machine_id"))
        /\ gm.pc = "again" =>
              /\ gm.again.name = gm.out.name
              /\ gm.again.field = gm.out.field
              /\ gm.again.value = gm.out.value
              /\ gm.again.time = gm.out.time
              /\ gm.again.tags = ("id" :> <<>>)
              /\ (gm.again = gm.out) <=> (gm.out.tags["id"] = <<>>)

\* C18's case: a point of an unmapped measurement with a machine id, after
\* the second application.
C18_Witness ==
    /\ gm.pc = "again"
    /\ gm.metricName = <<"temp">>
    /\ gm.out.tags["id"] = <<"m1">>
    /\ gm.timestamp = NanosPerSecond + 1
    /\ gm.again.name = <<"temp">>

(***************************************************************************)
(* The one reply of the reconciliation mode (SpecFanout).                  *)
(***************************************************************************)
\* The request is over: the handler returned or the process ended.
RequestOver == hs.pc = "done" \/ proc # "up"

\* C19: on a relay that waits for the responses, in every interleaving of
\* the delivery attempts, exactly one reply is written to the caller: never
\* two, and one when the request is over; once the one-time action has run
\* for a 2xx or 4xx response nothing more is written; and the handler writes
\* the stored error response or the 503 only when the one-time action never
\* ran and every attempt has finished.
C19_SingleReconciledWrite ==
    /\ [](~ignores(h) => (Len(w) <= 1 /\ (RequestOver => Len(w) = 1)))
    /\ [][(~ignores(h) /\ once) => w' = w]_vars
    /\ [][(~ignores(h) /\ hs.pc = "final" /\ w' # w)
             => (/\ ~once
                 /\ \A t \in BagToSet(tasks) : t.phase = "done"
                 /\ wg = 0
                 /\ w = <<>>
                 /\ w' = <<finalStatus(hs.errResponse)>>)]_vars

(***************************************************************************)
(* The inline retries of pushToInfluxdb (SpecBackend).                     *)
(***************************************************************************)
\* The step is a post of pushToInfluxdb after the first one of its batch.
FurtherPost == rb.pc = "up" /\ rb.push.pc = "loop" /\ rb'.push.pc = "post"

\* The step is the return of pushToInfluxdb.
PushReturns == rb.pc = "up" /\ rb.push.pc = "loop" /\ rb'.push.pc = "idle"

\* C21: for one batch, pushToInfluxdb makes one post and at most three
\* further posts; a further post follows only a post that got no response
\* (status 0: the transport failed), so it never posts again after a
\* response, whatever its status; and it returns an error only after the
\* fourth post failed, with the error of that post.
C21_BoundedInlineRetry ==
    /\ [](rb.pc = "up" =>
            /\ rb.push.posts <= 1 + InlineRetries
            /\ \A k \in 1..Len(rb.results) :
                  /\ rb.results[k].posts \in 1..(1 + InlineRetries)
                  /\ ~IsNil(rb.results[k].err) => rb.results[k].posts = 1 + InlineRetries)
    /\ [][FurtherPost => (rb.push.status = 0 /\ ~IsNil(rb.push.err)
                          /\ rb.push.posts <= InlineRetries)]_vars
    /\ [][(PushReturns /\ ~IsNil(rb.push.err)) =>
             (rb.push.posts = 1 + InlineRetries
              /\ rb'.results[Len(rb'.results)].err = rb.push.err)]_vars
    /\ [][(rb.pc = "up" /\ rb.push.pc = "loop" /\ rb.push.status # 0 /\ rb'.push # rb.push)
             => PushReturns]_vars

\* C21's case: four posts of a batch to an unbuffered backend have failed,
\* and the backend has answered the third post of a later batch with a 500.
C21_Witness ==
    /\ rb.pc = "up"
    /\ ~rb.buffered
    /\ rb.push.pc = "loop"
    /\ rb.push.status = 500
    /\ rb.push.posts = 3
    /\ \E k \in 1..Len(rb.results) :
          rb.results[k].err = "down" /\ rb.results[k].posts = 1 + InlineRetries

(***************************************************************************)
(* SpecMetering: several write requests handled at once, each from its     *)
(* identity check to the end of the metering block (614-654).  The         *)
(* counters are the variable metering; mr holds the mutex mu, the keys     *)
(* the two levels of the map have, and the requests.                       *)
(***************************************************************************)
MaxRequests == 2    \* requests handled at once

\* The requests: their identity headers and their points, each of one
\* float field (len(points) = totalDatapoints).
MeteredRequests ==
    [machineID : {"absent", "present"}, orgID : {"absent", "present"},
     points : {1, MaxBodyPoints}]

\* The relays that count: metering is enabled.
MeteringConfigs ==
    {c \in Configs : /\ c.enableMetering
                     /\ ~c.itsAllGoodMan
                     /\ c.splitRequestPerDatapoints = MaxInt
                     /\ c.backends = <<"influxdb">>}

\* The handler's machineID (614-623) and orgID (633-636).
MachineOf(r) == IF r.machineID = "present" THEN "m1" ELSE ""
OrgOf(r) == IF r.orgID = "present" THEN "org1" ELSE "Unauthorized"
KeyOf(r) == <<OrgOf(r), MachineOf(r)>>

NewMetered(r) == [pc |-> "identity", r |-> r, machExists |-> FALSE]

\* mu.Lock() returns when no request holds mu (639).
acquiresHeld(mu) == TRUE

acquires(mu) == mu = 0

AtMeter(i, l) == mr.pc = "up" /\ mr.reqs[i].pc = l

\* The identity check and the absolute cap (614-629): the request is
\* answered and the handler returns, or it goes on to the metering block.
Admit ==
    \E i \in 1..MaxRequests :
        /\ AtMeter(i, "identity")
        /\ LET r == mr.reqs[i].r
           IN  mr' = [mr EXCEPT !.reqs[i].pc =
                         IF rejectsUnidentified(h, r.machineID) \/ overCap(h, r.points)
                         THEN "rejected" ELSE "lock"]
        /\ UNCHANGED <<pr, relayVars, rb, svc, gm>>

\* mu.Lock() (639)
Lock ==
    \E i \in 1..MaxRequests :
        /\ AtMeter(i, "lock")
        /\ acquires(mr.mu)
        /\ mr' = [mr EXCEPT !.mu = i, !.reqs[i].pc = "org"]
        /\ UNCHANGED <<pr, relayVars, rb, svc, gm>>

\* The map of the org: a new one when the org has none; a new map has no
\* machine, and the counters that were in a replaced one are gone (641-644).
OrgEntry ==
    \E i \in 1..MaxRequests :
        /\ AtMeter(i, "org")
        /\ LET org == OrgOf(mr.reqs[i].r)
               gone == IF org \in mr.orgs THEN {} ELSE {org} \X MachineIDs
           IN  /\ mr' = [mr EXCEPT !.orgs = @ \cup {org}, !.machs = @ \ gone,
                                   !.reqs[i].pc = "mach"]
               /\ metering' = [key \in DOMAIN metering |->
                                  IF key \in gone THEN 0 ELSE metering[key]]
        /\ UNCHANGED <<pr, h, rq, hs, w, wg, once, responses, tasks, closer, proc, rb, svc, gm>>

\* _, machExists := metering[orgID][machineID] (646)
MachExists ==
    \E i \in 1..MaxRequests :
        /\ AtMeter(i, "mach")
        /\ mr' = [mr EXCEPT !.reqs[i].machExists = KeyOf(mr.reqs[i].r) \in mr.machs,
                            !.reqs[i].pc = "store"]
        /\ UNCHANGED <<pr, relayVars, rb, svc, gm>>

\* The counter is set to len(points) or grows by it (647-651).
Store ==
    \E i \in 1..MaxRequests :
        /\ AtMeter(i, "store")
        /\ LET r == mr.reqs[i].r
           IN  /\ metering' = [metering EXCEPT ![KeyOf(r)] =
                                  IF mr.reqs[i].machExists THEN @ + r.points ELSE r.points]
               /\ mr' = [mr EXCEPT !.machs = @ \cup {KeyOf(r)}, !.reqs[i].pc = "unlock"]
        /\ UNCHANGED <<pr, h, rq, hs, w, wg, once, responses, tasks, closer, proc, rb, svc, gm>>

\* mu.Unlock() (653)
Unlock ==
    \E i \in 1..MaxRequests :
        /\ AtMeter(i, "unlock")
        /\ mr' = [mr EXCEPT !.mu = 0, !.reqs[i].pc = "done"]
        /\ UNCHANGED <<pr, relayVars, rb, svc, gm>>

InitMetering ==
    /\ pr = NoFrame
    /\ h \in MeteringConfigs
    /\ RelayIdle
    /\ rb = NoBackend
    /\ svc = NoService
    /\ gm = NoCall
    /\ \E reqs \in [1..MaxRequests -> MeteredRequests] :
          mr = [pc |-> "up", mu |-> 0, orgs |-> {}, machs |-> {},
                reqs |-> [i \in 1..MaxRequests |-> NewMetered(reqs[i])]]

NextMetering == Admit \/ Lock \/ OrgEntry \/ MachExists \/ Store \/ Unlock

SpecMetering == InitMetering /\ [][NextMetering]_vars

(***************************************************************************)
(* Properties of the metering counters (SpecMetering).                     *)
(***************************************************************************)
\* The request passes the identity check and the cap.
Admitted(i) ==
    LET r == mr.reqs[i].r
    IN  ~(r.machineID = "absent" /\ h.dropUnauthorized)
        /\ ~(h.maxDatapointsPerRequest > 0 /\ r.points > h.maxDatapointsPerRequest)

\* The points of those of the requests 1..n that are in S and of this key.
RECURSIVE PointsOf(_, _, _)
PointsOf(key, n, S) ==
    IF n = 0 THEN 0
    ELSE PointsOf(key, n - 1, S)
           + (IF KeyOf(mr.reqs[n].r) = key /\ n \in S THEN mr.reqs[n].r.points ELSE 0)

AllAdmitted == {i \in 1..MaxRequests : Admitted(i)}

HaveStored == {i \in AllAdmitted : mr.reqs[i].pc \in {"unlock", "done"}}

\* C22: with metering enabled, in every interleaving of the requests, each
\* counter is the sum of the points of the admitted requests of its key that
\* have stored: a rejected request changes no counter, and when all requests
\* are over each counter is the sum over all admitted requests of its key.
C22_NoLostUpdates ==
    mr.pc = "up" =>
        /\ \A key \in OrgIDs \X MachineIDs :
              metering[key] = PointsOf(key, MaxRequests, HaveStored)
        /\ \A i \in 1..MaxRequests :
              /\ mr.reqs[i].pc = "rejected" => ~Admitted(i)
              /\ mr.reqs[i].pc = "done" => Admitted(i)
        /\ (\A i \in 1..MaxRequests : mr.reqs[i].pc \in {"done", "rejected"}) =>
              \A key \in OrgIDs \X MachineIDs :
                  metering[key] = PointsOf(key, MaxRequests, AllAdmitted)

\* C22's case: two requests of one key were handled at once, the second
\* waiting for the mutex while the first counted, and both are counted.
C22_Witness ==
    /\ mr.pc = "up"
    /\ mr.reqs[1].pc = "done"
    /\ mr.reqs[2].pc = "store"
    /\ mr.reqs[2].machExists
    /\ KeyOf(mr.reqs[1].r) = KeyOf(mr.reqs[2].r)
    /\ metering[KeyOf(mr.reqs[1].r)] = mr.reqs[1].r.points

(***************************************************************************)
(* SpecFanoutLive: the fan-out with its scheduling.  The handler, the      *)
(* delivery goroutines and the closing goroutine are goroutines of the Go  *)
(* runtime and a post returns within the client's timeout: a step that     *)
(* stays possible is taken.                                                *)
(***************************************************************************)
SpecFanoutLive == SpecFanout /\ WF_vars(NextFanout)

\* The attempts that signal the WaitGroup: one per influxdb backend and
\* batch, one per other backend.
Signals ==
    Cardinality({i \in 1..Len(h.backends) : h.backends[i] = "influxdb"} \X (1..Len(hs.outBytes)))
        + Cardinality({i \in 1..Len(h.backends) : h.backends[i] # "influxdb"})

\* The delivery goroutines that have not signalled the WaitGroup.
Unsignalled ==
    {t \in BagToSet(tasks) : t.kind = "influxdb" /\ t.phase \in {"run", "send"}}

\* C23: the WaitGroup is set to the number of the attempts that signal it
\* and, once all are dispatched, counts those that have not; a goroutine at
\* its channel send finds room in the channel, whether or not the handler
\* still receives; the channel is closed once, when every attempt has
\* finished; and the handler returns.
C23_FanoutNeverDeadlocks ==
    /\ [][(hs.pc = "setup" /\ hs'.pc # "setup") => wg' = Signals]_vars
    /\ [](wg >= 0)
    /\ [](closer # "none" => (wg = 0 <=> Unsignalled = {}))
    /\ [](\A t \in BagToSet(tasks) : t.phase = "send" => canSend(responses))
    /\ [][responses'.closed # responses.closed
            => (~responses.closed /\ wg = 0 /\ Unsignalled = {})]_vars
    /\ (closer = "waiting") ~> responses.closed
    /\ <>(hs.pc = "done")

(***************************************************************************)
(* The replies of one request (Spec).                                      *)
(***************************************************************************)
\* C24: the handler writes at most one status for a request, on every path:
\* after a client-error reply or the early 204 it writes no second one, and
\* after a client-error reply it takes no further step of parsing or
\* dispatch.
C24_AtMostOneReply ==
    /\ [](Len(w) <= 1)
    /\ [][(w # <<>> /\ Class(w[1]) = 4) => (hs'.pc = hs.pc /\ tasks' = tasks)]_vars

(***************************************************************************)
(* Stop in every lifecycle state (SpecService).                            *)
(***************************************************************************)
\* C25: Stop does not fault on a relay that has not bound its listener,
\* whether it is called before Run, during Run's startup or after Run failed
\* to bind; and a relay whose Run failed to bind has no running schedule.
C25_StopSafeInEveryState ==
    svc.pc # "none" =>
        /\ svc.proc # "crashed"
        /\ \A i \in RelayIds :
              (svc.relays[i].run = "returned" /\ svc.relays[i].bindErr)
                  => svc.relays[i].cronJob # "running"

(***************************************************************************)
(* The batches of parseRequest (SpecBatch).                                *)
(***************************************************************************)
\* C26: every batch parseRequest emits, for every body and every threshold
\* of at least 1, holds at least one line, also when the first point has
\* more numeric fields than the threshold.
C26_NoEmptyBatch ==
    (pr.pc # "idle" /\ pr.k >= 1) =>
        \A b \in 1..Len(pr.outBytes) : Len(pr.outBytes[b]) >= 1

====
